---- MODULE Spec2Model ----
(***************************************************************************)
(* Enrichment orchestrator of scripts/llm/enrich_geo_urls_with_gemini.py:  *)
(* the per-row loop of main(), its retry loop around gemini_generate_json, *)
(* the JSONL audit log and the workbook checkpoints.                       *)
(*                                                                         *)
(* Time is counted in ticks of 1/TicksPerSec seconds.  The urls sheet has  *)
(* one row per URL, so a row number stands for its URL string.  Of the     *)
(* urls columns the model keeps the `type` cell, the one main() reads.     *)
(***************************************************************************)
EXTENDS Integers, Sequences, FiniteSets, TLC

\* ---------------------------------------------------------------- bounds
NRows == 2
MaxRuns == 2
MaxRetries == 2
\* resolution of the clock
TicksPerSec == 8
\* rows of a worksheet before upsert_row is called, calls made in a row
MaxSheetRows == 2
MaxCalls == 2

Rows == 1..NRows

\* random.random() * 0.25 lies in [0, 0.25 s), a quarter of a second
JitterTicks == TicksPerSec \div 4

VARIABLES
  xlsx,          \* saved workbook: urls.type cell of every row
  log,           \* JSONL audit log file, a sequence of entries
  pc,            \* position of main()
  args,          \* parsed command line of the current run
  wb,            \* workbook in memory (urls.type per row)
  ok_urls, fail_urls,
  processed, labeled, skipped, failed, last_saved_at,
  r,             \* current row of the urls sheet
  attempt, parsed, last_err, e,
  remaining, t, sleep_s,
  elapsed,       \* time.time() - url_t0, followed when a budget is set
  outs,          \* outcomes of the API calls made for the current item
  nsleeps,       \* number of sleeps made for the current item
  called,        \* URLs an API call was issued for in this run
  okNow,         \* URLs whose API call returned a response in this run
  okPrev,        \* the same for the run before, if that run was interrupted
  logStart,      \* length of the audit log when this run started
  interrupted,   \* the run before this one was interrupted
  runsLeft,
  content,       \* rows that have a URL and an existing content file
  argDomain,     \* command lines a run may be started with
  apiDomain,     \* what the API may answer
  ws,            \* a worksheet: its rows below the header, cells by column
  wsPrev,        \* the worksheet before the last call of upsert_row
  call,          \* the last call of upsert_row: key_val, row, overwrite
  ipc,           \* position of the ingestion script that is running
  args_overwrite,\* --overwrite of the running Bing export ingestion
  urls_key_index,\* its map of normalized key -> stored url
  existing_urls, \* pilot ingestion: URL strings seen so far
  new_urls,      \* pilot ingestion: URLs to insert
  df,            \* patch ingestion: the rows of the CSV that was read
  ws_main,       \* the bing_results sheet: its rows below the header
  rows,          \* clean_bing_export: the row records passed in
  given,         \* the row records as they were when the last call began
  top_n,         \* clean_bing_export: its top_n
  cleaned,       \* what the calls of clean_bing_export returned, in order
  fed,           \* the rows passed in are the output of the first call
  stats,         \* the counters the last call of clean_bing_export returned
  raw_urls,      \* normalize_url_key: two URLs
  url_keys       \* normalize_url_key: their keys

enrichVars == <<xlsx, log, pc, args, wb, ok_urls, fail_urls, processed,
                labeled, skipped, failed, last_saved_at, r, attempt, parsed,
                last_err, e, remaining, t, sleep_s, elapsed, outs, nsleeps,
                called, okNow, okPrev, logStart, interrupted, runsLeft,
                argDomain, apiDomain, content>>
storeVars == <<ws, wsPrev, call>>
ingestVars ==
  <<ipc, args_overwrite, urls_key_index, existing_urls, new_urls, df, ws_main>>
cleanVars == <<rows, given, top_n, cleaned, fed, stats, raw_urls, url_keys>>
otherVars == <<storeVars, ingestVars, cleanVars>>

vars == <<enrichVars, otherVars>>

runVars == <<ok_urls, fail_urls, processed, labeled, skipped, failed,
             last_saved_at>>
itemVars == <<attempt, parsed, last_err, e, remaining, t, sleep_s, elapsed,
              outs, nsleeps>>
ghostVars == <<called, okNow, okPrev, logStart, interrupted>>

\* ------------------------------------------------------------ exceptions
NoneV == [kind |-> "None", status |-> 0]
Exc(k) == [kind |-> k, status |-> 0]
HTTPError(sc) == [kind |-> "HTTPError", status |-> sc]
Resp(k) == [kind |-> k, status |-> 200]

\* What gemini_generate_json returns: a labelled object, an object without
\* `urls`, a JSON value that is no object, JSON null, an object whose
\* listicles entry holds a value a worksheet cell cannot take, or an object
\* whose `urls` has no (or an empty) `type`.
Responses == {Resp("Label"), Resp("NoUrls"), Resp("NonDict"), Resp("Null"),
              Resp("BadCell"), Resp("EmptyType")}
\* What it raises: requests.post timeouts and connection errors,
\* raise_for_status, a body that is not the expected envelope, non-JSON text.
Statuses == {400, 404, 429, 500, 501, 502, 503, 504}
Raised == {Exc("ReadTimeout"), Exc("ConnectTimeout"), Exc("ConnectionError"),
           Exc("KeyError"), Exc("ValueError")}
          \cup {HTTPError(sc) : sc \in Statuses}
Outcomes == Responses \cup Raised

IsResponse(o) == o \in Responses

RECURSIVE Pow(_, _)
Pow(b, n) == IF n <= 0 THEN 1 ELSE b * Pow(b, n - 1)

Max(a, b) == IF a >= b THEN a ELSE b
Min(a, b) == IF a <= b THEN a ELSE b

\* ------------------------------------------------------------- arguments
MkArgs(ow, rf, mu, se, ret, bo, to, mn, md, bud) ==
  [overwrite |-> ow, retry_failures |-> rf, max_urls |-> mu, save_every |-> se,
   retries |-> ret, retry_backoff |-> bo, timeout |-> to,
   mult_num |-> mn, mult_den |-> md, max_seconds_per_url |-> bud]

NoArgs == MkArgs(FALSE, FALSE, 0, 0, 0, 0, 0, 1, 1, 0)

\* Runs of the whole program: every flag combination, two retry set-ups
\* (none; one retry inside a one-second budget).
RunArgs ==
  {MkArgs(ow, rf, 0, 1, 0, 0, 1, 1, 1, 0) : ow \in BOOLEAN, rf \in BOOLEAN}
  \cup {MkArgs(FALSE, FALSE, 1, 0, 0, 0, 1, 1, 1, 0),
        MkArgs(FALSE, FALSE, 0, 2, 1, TicksPerSec, 1, 1, 1, TicksPerSec)}

\* The answers of the API in runs of the whole program: one of each kind that
\* main() tells apart after the retry loop.
RunOutcomes ==
  {Resp("Label"), Resp("NonDict"), Resp("BadCell"), Resp("EmptyType"),
   HTTPError(503), Exc("ValueError")}

\* One item under every retry set-up: --retries, --retry-backoff (ticks),
\* --timeout (s), --retry-timeout-mult (a fraction), --max-seconds-per-url
\* (ticks, 0 = no budget).
RetryArgs ==
  {MkArgs(FALSE, FALSE, 0, 0, ret, bo, to, 3, 2, 0) :
     ret \in (-1)..MaxRetries, bo \in {-TicksPerSec, TicksPerSec \div 2},
     to \in {1, 3}}
  \cup {MkArgs(FALSE, FALSE, 0, 0, 2, bo, tm[1], tm[2], tm[3], bud) :
     bo \in {0, TicksPerSec}, tm \in {<<1, 1, 1>>, <<3, 3, 2>>},
     bud \in {TicksPerSec \div 2, 2 * TicksPerSec, 5 * TicksPerSec}}

\* -------------------------------------------------------------- helpers
\* (ok_urls, fail_urls) of a JSONL audit log
load_processed_urls_from_jsonl(path) ==
  <<{path[i].url : i \in {k \in 1..Len(path) : path[k].ok}},
    {path[i].url : i \in {k \in 1..Len(path) : ~path[k].ok}}>>

\* a resume check that forgets the failed URLs
ResumeSkip_OkOnly(a, url, oks, fails) ==
  ~a.overwrite /\ url \in oks

\* a resume check that forgets the URLs logged ok
ResumeSkip_FailOnly(a, url, oks, fails) ==
  ~a.overwrite /\ ~a.retry_failures /\ url \in fails

\* main(): resume skip checks after the urls.type check
ResumeSkip(a, url, oks, fails) ==
  ~a.overwrite /\ (url \in oks \/ (~a.retry_failures /\ url \in fails))

\* a retry loop that counts --retries as the number of attempts
Attempts_OffByOne(a) == Max(1, a.retries)

\* main(): attempts = max(1, int(args.retries) + 1)
Attempts(a) == Max(1, a.retries + 1)

BudgetOn(a) == a.max_seconds_per_url > 0

\* a budget check that lets an attempt start with nothing left
BudgetExceeded_Strict(rem) == rem < 0

\* main(): if remaining <= 0: raise TimeoutError
BudgetExceeded(rem) == rem <= 0

\* main(): t = int(timeout * mult ** (attempt - 1)), capped by the budget
AttemptTimeout(a, att, rem) ==
  LET raw == (a.timeout * Pow(a.mult_num, att - 1)) \div Pow(a.mult_den, att - 1)
  IN  IF rem = {} THEN raw
      ELSE LET x == CHOOSE v \in rem : TRUE
           IN  Max(1, Min(raw, x \div TicksPerSec))

\* a retryable decision that takes every HTTP error for transient
Retryable_AnyHTTP(err) ==
  err.kind \in {"ReadTimeout", "ConnectTimeout", "ConnectionError", "HTTPError"}

\* main(): the retryable decision of the inner except clause
Retryable(err) ==
  \/ err.kind \in {"ReadTimeout", "ConnectTimeout", "ConnectionError"}
  \/ err.kind = "HTTPError" /\ err.status \in {429, 500, 502, 503, 504}

\* a backoff that doubles once too often
BackoffSleep_Doubled(a, att, jitter) ==
  Max(0, a.retry_backoff) * Pow(2, att) + jitter

\* main(): base * (2 ** (attempt - 1)) + random.random() * 0.25
BackoffSleep(a, att, jitter) ==
  Max(0, a.retry_backoff) * Pow(2, att - 1) + jitter

\* main(): sleep_s = min(sleep_s, max(0.0, remaining))
CapSleep(s, rem) == Min(s, Max(0, rem))

\* a log opened for writing instead of appending
AppendLine_Truncate(path, entry) == <<entry>>

\* with open(args.log_jsonl, "a") as lf: lf.write(json.dumps(entry) + "\n")
AppendLine(path, entry) == Append(path, entry)

\* a checkpoint that waits for one item more than --save-every
CheckpointDue_Late(a, proc, last) ==
  a.save_every > 0 /\ (proc - last) > a.save_every

\* main(): if args.save_every > 0 and (processed - last_saved_at) >= save_every
CheckpointDue(a, proc, last) ==
  a.save_every > 0 /\ (proc - last) >= a.save_every

\* an except clause that leaves the row loop after a failure
AfterLogFail_Break == "final"

\* main(): the except clause falls through to the end of the loop body
AfterLogFail == "post"

\* How long a call may take: a timeout fires after t seconds, anything else
\* comes back within them.
Durations(a, tt, o) ==
  IF ~BudgetOn(a) THEN {0}
  ELSE IF o.kind \in {"ReadTimeout", "ConnectTimeout"} THEN {tt * TicksPerSec}
  ELSE {d \in {0, TicksPerSec \div 2} : d <= tt * TicksPerSec}

\* main(): the urls cells written for a response
WriteUrls(sheet, row, resp) ==
  IF resp.kind \in {"Label", "BadCell"} THEN [sheet EXCEPT ![row] = "listicle"]
  ELSE IF resp.kind = "EmptyType" THEN [sheet EXCEPT ![row] = ""]
  ELSE sheet

EmptySheet == [x \in Rows |-> ""]

\* ---------------------------------------------------------------- states
ProcessGone ==
  /\ args' = NoArgs
  /\ wb' = EmptySheet
  /\ ok_urls' = {} /\ fail_urls' = {}
  /\ processed' = 0 /\ labeled' = 0 /\ skipped' = 0 /\ failed' = 0
  /\ last_saved_at' = 0
  /\ r' = 0

ItemReset ==
  /\ attempt' = 0 /\ parsed' = NoneV /\ last_err' = NoneV /\ e' = NoneV
  /\ remaining' = {} /\ t' = 0 /\ sleep_s' = 0 /\ elapsed' = 0
  /\ outs' = <<>> /\ nsleeps' = 0

InitCommon ==
  /\ xlsx = EmptySheet /\ log = <<>>
  /\ pc = "idle"
  /\ args = NoArgs
  /\ wb = EmptySheet
  /\ ok_urls = {} /\ fail_urls = {}
  /\ processed = 0 /\ labeled = 0 /\ skipped = 0 /\ failed = 0
  /\ last_saved_at = 0
  /\ r = 0
  /\ attempt = 0 /\ parsed = NoneV /\ last_err = NoneV /\ e = NoneV
  /\ remaining = {} /\ t = 0 /\ sleep_s = 0 /\ elapsed = 0
  /\ outs = <<>> /\ nsleeps = 0
  /\ called = {} /\ okNow = {} /\ okPrev = {} /\ logStart = 0
  /\ interrupted = FALSE

\* no worksheet of the upsert_row development is open
NoSheet == ws = <<>> /\ wsPrev = <<>> /\ call = <<>>

\* clean_bing_export is not in use
NoClean ==
  /\ rows = <<>> /\ given = <<>> /\ top_n = 0 /\ cleaned = <<>>
  /\ fed = FALSE /\ stats = <<>>
  /\ raw_urls = <<>> /\ url_keys = <<>>

\* no ingestion script is running
NoIngest ==
  /\ ipc = "idle" /\ args_overwrite = FALSE /\ urls_key_index = <<>>
  /\ existing_urls = {} /\ new_urls = <<>>
  /\ df = <<>> /\ ws_main = <<>>

Init ==
  InitCommon /\ runsLeft = MaxRuns /\ argDomain = RunArgs
  /\ apiDomain = RunOutcomes
  /\ content \in SUBSET Rows
  /\ NoSheet /\ NoIngest /\ NoClean

InitRetry ==
  InitCommon /\ runsLeft = 1 /\ argDomain = RetryArgs
  /\ apiDomain = Outcomes
  /\ content = Rows
  /\ NoSheet /\ NoIngest /\ NoClean

\* --------------------------------------------------------------- actions
\* main() up to the row loop: load the workbook and the audit log
StartRun ==
  /\ pc \in {"idle", "done"}
  /\ runsLeft > 0
  /\ \E a \in argDomain : args' = a
  /\ wb' = xlsx
  /\ ok_urls' = load_processed_urls_from_jsonl(log)[1]
  /\ fail_urls' = load_processed_urls_from_jsonl(log)[2]
  /\ processed' = 0 /\ labeled' = 0 /\ skipped' = 0 /\ failed' = 0
  /\ last_saved_at' = 0
  /\ r' = 1
  /\ pc' = "scan"
  /\ ItemReset
  /\ called' = {} /\ okNow' = {} /\ logStart' = Len(log)
  /\ interrupted' = (pc = "idle" /\ interrupted)
  /\ okPrev' = (IF pc = "idle" THEN okPrev ELSE {})
  /\ runsLeft' = runsLeft - 1
  /\ UNCHANGED <<xlsx, log, argDomain, apiDomain, content, otherVars>>

\* a row with no URL, outside --only-urls, or whose content file is missing
SkipNoContent ==
  /\ pc = "scan" /\ r \in Rows
  /\ r \notin content
  /\ r' = r + 1
  /\ UNCHANGED <<xlsx, log, pc, args, wb, runVars, itemVars, ghostVars,
                 runsLeft, argDomain, apiDomain, content, otherVars>>

\* a row that already has urls.type
SkipLabeled ==
  /\ pc = "scan" /\ r \in content
  /\ ~args.overwrite /\ wb[r] # ""
  /\ skipped' = skipped + 1
  /\ r' = r + 1
  /\ UNCHANGED <<xlsx, log, pc, args, wb, ok_urls, fail_urls, processed,
                 labeled, failed, last_saved_at, itemVars, ghostVars,
                 runsLeft, argDomain, apiDomain, content, otherVars>>

\* a row the audit log already has
SkipLogged ==
  /\ pc = "scan" /\ r \in content
  /\ ~(~args.overwrite /\ wb[r] # "")
  /\ ResumeSkip(args, r, ok_urls, fail_urls)
  /\ skipped' = skipped + 1
  /\ r' = r + 1
  /\ UNCHANGED <<xlsx, log, pc, args, wb, ok_urls, fail_urls, processed,
                 labeled, failed, last_saved_at, itemVars, ghostVars,
                 runsLeft, argDomain, apiDomain, content, otherVars>>

Eligible ==
  /\ pc = "scan" /\ r \in content
  /\ ~(~args.overwrite /\ wb[r] # "")
  /\ ~ResumeSkip(args, r, ok_urls, fail_urls)

\* processed += 1; if args.max_urls and processed > args.max_urls: break
MaxUrlsBreak ==
  /\ Eligible
  /\ processed' = processed + 1
  /\ args.max_urls # 0 /\ processed' > args.max_urls
  /\ pc' = "final"
  /\ UNCHANGED <<xlsx, log, args, wb, ok_urls, fail_urls, labeled, skipped,
                 failed, last_saved_at, r, itemVars, ghostVars, runsLeft,
                 argDomain, apiDomain, content, otherVars>>

\* the item starts: read the content file, enter the retry loop
BeginItem ==
  /\ Eligible
  /\ processed' = processed + 1
  /\ ~(args.max_urls # 0 /\ processed' > args.max_urls)
  /\ \E readOk \in BOOLEAN :
       IF readOk
       THEN /\ attempt' = 1 /\ pc' = "attempt" /\ e' = NoneV
       ELSE /\ attempt' = 0 /\ pc' = "logfail" /\ e' = Exc("OSError")
  /\ parsed' = NoneV /\ last_err' = NoneV
  /\ elapsed' = 0
  /\ outs' = <<>> /\ nsleeps' = 0
  /\ UNCHANGED <<xlsx, log, args, wb, ok_urls, fail_urls, labeled, skipped,
                 failed, last_saved_at, r, remaining, t, sleep_s, ghostVars,
                 runsLeft, argDomain, apiDomain, content, otherVars>>

\* the try block of one loop iteration: budget check, timeout, API call
Attempt ==
  /\ pc = "attempt"
  /\ LET rem == args.max_seconds_per_url - elapsed
     IN IF BudgetOn(args) /\ BudgetExceeded(rem)
        THEN /\ remaining' = {rem}
             /\ last_err' = Exc("TimeoutError")
             /\ pc' = "except"
             /\ UNCHANGED <<t, elapsed, outs, parsed, e, called, okNow>>
        ELSE /\ remaining' = (IF BudgetOn(args) THEN {rem} ELSE {})
             /\ t' = AttemptTimeout(args, attempt, remaining')
             /\ \E o \in apiDomain :
                  \E d \in Durations(args, t', o) :
                    /\ elapsed' = (IF BudgetOn(args) THEN elapsed + d ELSE elapsed)
                    /\ outs' = Append(outs, o)
                    /\ IF IsResponse(o)
                       THEN /\ last_err' = NoneV
                            /\ IF o.kind = "Null"
                               THEN /\ parsed' = NoneV
                                    /\ e' = Exc("RuntimeError")
                                    /\ pc' = "logfail"
                                    /\ okNow' = okNow
                               ELSE /\ parsed' = o
                                    /\ e' = e
                                    /\ pc' = "store"
                                    /\ okNow' = okNow \cup {r}
                       ELSE /\ last_err' = o
                            /\ pc' = "except"
                            /\ UNCHANGED <<parsed, e, okNow>>
             /\ called' = called \cup {r}
  /\ UNCHANGED <<xlsx, log, args, wb, runVars, r, attempt, sleep_s, nsleeps,
                 okPrev, logStart, interrupted, runsLeft, argDomain, apiDomain, content, otherVars>>

\* the except clause of one loop iteration: give up, or back off and retry
HandleError ==
  /\ pc = "except"
  /\ IF attempt >= Attempts(args) \/ ~Retryable(last_err)
     THEN /\ e' = last_err
          /\ pc' = "logfail"
          /\ UNCHANGED <<attempt, remaining, sleep_s, elapsed, nsleeps>>
     ELSE \E jitter \in 0..(JitterTicks - 1) :
            LET s == BackoffSleep(args, attempt, jitter)
                rem == args.max_seconds_per_url - elapsed
            IN IF BudgetOn(args) /\ rem <= 0
               THEN /\ remaining' = {rem}
                    /\ sleep_s' = s
                    /\ e' = last_err
                    /\ pc' = "logfail"
                    /\ UNCHANGED <<attempt, elapsed, nsleeps>>
               ELSE /\ remaining' = (IF BudgetOn(args) THEN {rem} ELSE remaining)
                    /\ sleep_s' = (IF BudgetOn(args) THEN CapSleep(s, rem) ELSE s)
                    /\ nsleeps' = nsleeps + 1
                    /\ elapsed' = (IF BudgetOn(args) THEN elapsed + sleep_s' ELSE elapsed)
                    /\ attempt' = attempt + 1
                    /\ pc' = "attempt"
                    /\ e' = e
  /\ UNCHANGED <<xlsx, log, args, wb, runVars, r, parsed, last_err, t, outs,
                 ghostVars, runsLeft, argDomain, apiDomain, content, otherVars>>

\* the response is written to the sheets; a cell that cannot take its value
\* raises after the urls cells were written
Store ==
  /\ pc = "store"
  /\ wb' = WriteUrls(wb, r, parsed)
  /\ IF parsed.kind = "BadCell"
     THEN /\ e' = Exc("ValueError") /\ pc' = "logfail" /\ labeled' = labeled
     ELSE /\ e' = e /\ pc' = "logok" /\ labeled' = labeled + 1
  /\ UNCHANGED <<xlsx, log, args, ok_urls, fail_urls, processed, skipped,
                 failed, last_saved_at, r, attempt, parsed, last_err,
                 remaining, t, sleep_s, elapsed, outs, nsleeps, ghostVars,
                 runsLeft, argDomain, apiDomain, content, otherVars>>

\* audit log: {"url": url, "ok": True, "response": parsed}
LogOk ==
  /\ pc = "logok"
  /\ log' = AppendLine(log, [url |-> r, ok |-> TRUE, response |-> parsed,
                             error |-> NoneV])
  /\ ok_urls' = ok_urls \cup {r}
  /\ pc' = "post"
  /\ UNCHANGED <<xlsx, args, wb, fail_urls, processed, labeled, skipped,
                 failed, last_saved_at, r, itemVars, ghostVars, runsLeft,
                 argDomain, apiDomain, content, otherVars>>

\* except Exception as e: failed += 1; {"url": url, "ok": False, "error": err}
LogFail ==
  /\ pc = "logfail"
  /\ failed' = failed + 1
  /\ log' = AppendLine(log, [url |-> r, ok |-> FALSE, response |-> NoneV,
                             error |-> e])
  /\ fail_urls' = fail_urls \cup {r}
  /\ pc' = AfterLogFail
  /\ UNCHANGED <<xlsx, args, wb, ok_urls, processed, labeled, skipped,
                 last_saved_at, r, itemVars, ghostVars, runsLeft, argDomain, apiDomain, content, otherVars>>

\* end of the loop body: checkpoint when due, next row
Checkpoint ==
  /\ pc = "post"
  /\ IF CheckpointDue(args, processed, last_saved_at)
     THEN xlsx' = wb /\ last_saved_at' = processed
     ELSE UNCHANGED <<xlsx, last_saved_at>>
  /\ r' = r + 1
  /\ pc' = "scan"
  /\ ItemReset
  /\ UNCHANGED <<log, args, wb, ok_urls, fail_urls, processed, labeled,
                 skipped, failed, ghostVars, runsLeft, argDomain, apiDomain, content, otherVars>>

\* the row loop is exhausted
EndOfRows ==
  /\ pc = "scan" /\ r > NRows
  /\ pc' = "final"
  /\ UNCHANGED <<xlsx, log, args, wb, runVars, r, itemVars, ghostVars,
                 runsLeft, argDomain, apiDomain, content, otherVars>>

\* wb.save(args.xlsx) after the loop
FinalSave ==
  /\ pc = "final"
  /\ xlsx' = wb
  /\ pc' = "done"
  /\ UNCHANGED <<log, args, wb, runVars, r, itemVars, ghostVars, runsLeft,
                 argDomain, apiDomain, content, otherVars>>

\* the process is killed: memory is lost, the files stay as they are
Crash ==
  /\ pc \notin {"idle", "done"}
  /\ pc' = "idle"
  /\ ProcessGone
  /\ ItemReset
  /\ okPrev' = okNow /\ interrupted' = TRUE
  /\ called' = {} /\ okNow' = {} /\ logStart' = 0
  /\ UNCHANGED <<xlsx, log, runsLeft, argDomain, apiDomain, content, otherVars>>

Next ==
  \/ StartRun \/ SkipNoContent \/ SkipLabeled \/ SkipLogged \/ MaxUrlsBreak
  \/ BeginItem \/ Attempt \/ HandleError \/ Store \/ LogOk \/ LogFail
  \/ Checkpoint \/ EndOfRows \/ FinalSave \/ Crash

Spec == Init /\ [][Next]_vars

\* one item through the retry loop, under every retry set-up
NextRetry ==
  \/ StartRun \/ BeginItem \/ Attempt \/ HandleError \/ Store \/ LogOk
  \/ LogFail

SpecRetry == InitRetry /\ [][NextRetry]_vars

\* a process that is running takes its next step; starting a run and killing
\* it are up to the environment
Step ==
  \/ SkipNoContent \/ SkipLabeled \/ SkipLogged \/ MaxUrlsBreak
  \/ BeginItem \/ Attempt \/ HandleError \/ Store \/ LogOk \/ LogFail
  \/ Checkpoint \/ EndOfRows \/ FinalSave

SpecLive == Init /\ [][Next]_vars /\ WF_vars(Step)

\* ============================================================ worksheets
\* A worksheet is the sequence of its rows 2..max_row; a row maps the columns
\* of the header to cell values.  Cell values are strings, PyNone stands for
\* an empty cell (None), " " for a string of white space.
PyNone == "<None>"
Vals == {PyNone, " ", "X", "Y"}
Header == {"key", "f"}
KeyCol == "key"
KeyVals == {"X", "Y"}

\* str(v).strip()
Strip(v) == IF v = " " THEN "" ELSE v

\* v is not None and str(v).strip() != "", negated
IsBlank(v) == v = PyNone \/ Strip(v) = ""

\* the dicts passed as `row`: a value for the key column or not, any value
\* for column f or none, and possibly a field the sheet has no column for
Dicts ==
  UNION {[d -> Vals] : d \in SUBSET {"key", "f"}}
  \cup UNION {{[k \in d \cup {"z"} |-> IF k = "z" THEN "X" ELSE g[k]] :
                g \in [d -> Vals]} : d \in SUBSET {"f"}}

Calls ==
  {[key_val |-> k, row |-> d, overwrite |-> o] :
     k \in KeyVals, d \in Dicts, o \in BOOLEAN}

RECURSIVE SheetsOfLen(_)
SheetsOfLen(n) ==
  IF n = 0 THEN {<<>>}
  ELSE {Append(sh, row) : sh \in SheetsOfLen(n - 1), row \in [Header -> Vals]}

Sheets == UNION {SheetsOfLen(n) : n \in 0..MaxSheetRows}

MinOf(S) == CHOOSE i \in S : \A j \in S : i <= j

\* the first row whose key cell is not None and strips to key_val; 0 = None
find_row_by_key(sheet, col, key_val) ==
  LET hits == {i \in 1..Len(sheet) :
                 sheet[i][col] # PyNone /\ Strip(sheet[i][col]) = key_val}
  IN  IF hits = {} THEN 0 ELSE MinOf(hits)

\* for k, v in row.items(): if k in header: cell(rr, header[k]).value = v
WriteRow(old, header, row) ==
  [c \in header |-> IF c \in DOMAIN row THEN row[c] ELSE old[c]]

\* write the row into the first row with no non-blank cell, else after max_row
append_row_first_truly_empty(sheet, header, row) ==
  LET empties == {i \in 1..Len(sheet) : \A c \in header : IsBlank(sheet[i][c])}
  IN  IF empties # {}
      THEN [sheet EXCEPT ![MinOf(empties)] = WriteRow(@, header, row)]
      ELSE Append(sheet, WriteRow([c \in header |-> PyNone], header, row))

\* an upsert that skips only None among the incoming values
SkipIncoming_NoneOnly(v) == v = PyNone

\* upsert_row: if v is None: continue; if str and v.strip() == "": continue
SkipIncoming(v) == v = PyNone \/ Strip(v) = ""

upsert_row(sheet, header, key_col, key_val, row, overwrite) ==
  LET existing == find_row_by_key(sheet, key_col, key_val)
      row2 == [k \in DOMAIN row \cup {key_col} |->
                 IF k = key_col THEN key_val ELSE row[k]]
  IN  IF existing = 0
      THEN append_row_first_truly_empty(sheet, header, row2)
      ELSE [sheet EXCEPT ![existing] =
              [c \in header |->
                 IF /\ c \in DOMAIN row
                    /\ ~SkipIncoming(row[c])
                    /\ (overwrite \/ IsBlank(@[c]))
                 THEN row[c] ELSE @[c]]]

\* any worksheet, any call of upsert_row
InitStore ==
  /\ InitCommon /\ runsLeft = 0 /\ argDomain = {} /\ apiDomain = {}
  /\ content = {}
  /\ ws \in Sheets
  /\ wsPrev = <<>>
  /\ call \in Calls
  /\ NoIngest /\ NoClean

\* the call is made, up to MaxCalls times in a row
UpsertRow ==
  /\ Len(wsPrev) < MaxCalls
  /\ ws' = upsert_row(ws, Header, KeyCol, call.key_val, call.row, call.overwrite)
  /\ wsPrev' = Append(wsPrev, ws)
  /\ UNCHANGED <<call, enrichVars, ingestVars, cleanVars>>

NextStore == UpsertRow

SpecStore == InitStore /\ [][NextStore]_vars

\* ------------------------------------------- upsert_row of the ingestion
\* upsert_row of ingest_bing_content_export_to_geo_xlsx and of
\* ingest_pilot_to_geo_xlsx: no overwrite parameter, and no test of the
\* current cell before the write
ingest_upsert_row(sheet, header, key_col, key_val, row) ==
  LET existing == find_row_by_key(sheet, key_col, key_val)
      row2 == [k \in DOMAIN row \cup {key_col} |->
                 IF k = key_col THEN key_val ELSE row[k]]
  IN  IF existing = 0
      THEN append_row_first_truly_empty(sheet, header, row2)
      ELSE [sheet EXCEPT ![existing] =
              [c \in header |->
                 IF c \in DOMAIN row /\ ~SkipIncoming(row[c])
                 THEN row[c] ELSE @[c]]]

\* any worksheet, any row of an ingested file (the callers pass the fields
\* without the key column)
InitMerge ==
  /\ InitCommon /\ runsLeft = 0 /\ argDomain = {} /\ apiDomain = {}
  /\ content = {}
  /\ ws \in Sheets
  /\ wsPrev = <<>>
  /\ call \in {c \in Calls : ~c.overwrite /\ KeyCol \notin DOMAIN c.row}
  /\ NoIngest /\ NoClean

\* the ingestion upserts the row
IngestUpsert ==
  /\ wsPrev = <<>>
  /\ ws' = ingest_upsert_row(ws, Header, KeyCol, call.key_val, call.row)
  /\ wsPrev' = <<ws>>
  /\ UNCHANGED <<call, enrichVars, ingestVars, cleanVars>>

NextMerge == IngestUpsert

SpecMerge == InitMerge /\ [][NextMerge]_vars

\* ------------------------------------------------------ listicle_products
\* The listicle_products sheet with its three key columns; the items of a
\* response carry a value or None for each.
ProductsHeader == {"listicle_url", "position_in_listicle", "product_name"}
ItemVals == {PyNone, "X", "Y"}
Items == [ProductsHeader -> ItemVals]
PageUrls == {"X", "Y"}
ProductCalls == [url : PageUrls, item : Items, overwrite : BOOLEAN]

\* enrich_geo_urls_with_gemini.safe_str
enrich_safe_str(v) == IF v = PyNone THEN "" ELSE Strip(v)

upsert_listicle_product_row(sheet, listicle_url, position_in_listicle, product_name, item, overwrite) ==
  LET found == {rr \in 1..Len(sheet) :
                  /\ sheet[rr]["listicle_url"] # PyNone
                  /\ sheet[rr]["position_in_listicle"] # PyNone
                  /\ sheet[rr]["product_name"] # PyNone
                  /\ Strip(sheet[rr]["listicle_url"]) = listicle_url
                  /\ Strip(sheet[rr]["position_in_listicle"]) = position_in_listicle
                  /\ Strip(sheet[rr]["product_name"]) = product_name}
  IN  IF found # {}
      THEN IF overwrite
           THEN [sheet EXCEPT ![MinOf(found)] =
                   [c \in ProductsHeader |-> IF SkipIncoming(item[c]) THEN @[c] ELSE item[c]]]
           ELSE sheet
      ELSE append_row_first_truly_empty(sheet, ProductsHeader, item)

\* main, one item of parsed["listicle_products"] for the page url
ProductItem(sheet, url, item, overwrite) ==
  LET lk == enrich_safe_str(IF item["listicle_url"] = PyNone THEN url
                            ELSE item["listicle_url"])
      pos == enrich_safe_str(item["position_in_listicle"])
      pn == enrich_safe_str(item["product_name"])
  IN  IF lk = "" \/ pos = "" \/ pn = "" THEN sheet
      ELSE upsert_listicle_product_row(sheet, lk, pos, pn, item, overwrite)

\* the sheet is empty
InitProducts ==
  /\ InitCommon /\ runsLeft = 0 /\ argDomain = {} /\ apiDomain = {}
  /\ content = {}
  /\ NoSheet /\ NoIngest /\ NoClean

\* a product item of a successful enrichment is stored
StoreProduct ==
  /\ Len(ws) < MaxSheetRows
  /\ \E c \in ProductCalls :
       /\ call' = c
       /\ ws' = ProductItem(ws, c.url, c.item, c.overwrite)
  /\ wsPrev' = <<ws>>
  /\ UNCHANGED <<enrichVars, ingestVars, cleanVars>>

NextProducts == StoreProduct

SpecProducts == InitProducts /\ [][NextProducts]_vars

\* ================================================================== URLs
\* A URL string by its parts: the scheme before "://" ("" = none), a leading
\* "www.", the host as written, the path as a sequence of pieces ("/" is a
\* trailing slash), the query parameters in order as <<name, value>>, and
\* whether a fragment follows.  The empty string is NoUrl.
MkUrl(s, w, h, p, q, f) ==
  [scheme |-> s, www |-> w, host |-> h, path |-> p, query |-> q, frag |-> f]

NoUrl == MkUrl("", FALSE, "", <<>>, <<>>, FALSE)

\* an argument that is no str (None, a number), and isinstance(raw_url, str)
NonStr(v) == [nonstr |-> v]
IsStr(x) == "scheme" \in DOMAIN x

\* in place of a return value: the ValueError of urlsplit leaves the function
InvalidIPv6URL == <<"ValueError: Invalid IPv6 URL">>

\* str.lower() of a host
Lower(h) == IF h = "A.com" THEN "a.com" ELSE h

\* "://" in url: in the scheme separator or inside a parameter value
HasSchemeSep(u) ==
  u.scheme # "" \/ \E i \in 1..Len(u.query) : u.query[i][2] = "http://b.com"

\* host as written, with its "www."
NetlocOf(u) == (IF u.www THEN <<"www.">> ELSE <<>>) \o <<u.host>>

\* urlsplit(url) after main's "https://" prefix for a URL without "://": a
\* URL with no scheme that still holds "://" gets no prefix, and urlsplit
\* then finds no netloc and takes the host for the start of the path.
urlsplit(u) ==
  IF HasSchemeSep(u) /\ u.scheme = ""
  THEN [netloc |-> <<>>, path |-> NetlocOf(u) \o u.path, query |-> u.query]
  ELSE [netloc |-> NetlocOf(u), path |-> u.path, query |-> u.query]

\* urlsplit raises ValueError("Invalid IPv6 URL") for a netloc with an
\* unmatched bracket
UrlsplitRaises(u) ==
  ~(HasSchemeSep(u) /\ u.scheme = "") /\ u.host = "[a.com"

\* host = netloc.lower(); if host.startswith("www."): host = host[4:]
HostOf(parts) ==
  IF parts.netloc = <<>> THEN <<>>
  ELSE <<Lower(parts.netloc[Len(parts.netloc)])>>

\* path = parts.path or "/"; one trailing slash dropped unless the path is "/"
PathOf(parts) ==
  LET path == IF parts.path = <<>> THEN <<"/">> ELSE parts.path
  IN  IF Len(path) > 1 /\ path[Len(path)] = "/"
      THEN SubSeq(path, 1, Len(path) - 1) ELSE path

\* the parameter names that start with a prefix of TRACKING_PARAM_PREFIXES
TRACKING_PARAM_PREFIXES == {"utm_source", "utm_medium"}
TRACKING_PARAMS_EXACT ==
  {"gclid", "fbclid", "msclkid", "yclid", "mc_cid", "mc_eid", "igshid", "ref",
   "ref_src", "spm"}

\* lk.startswith("utm_") or lk in TRACKING_PARAMS_EXACT
IsTracking(name) ==
  name \in TRACKING_PARAM_PREFIXES \/ name \in TRACKING_PARAMS_EXACT

\* urlencode of one value (quote_plus), and parse_qsl of one value (unquote)
Quote(v) == IF v = "http://b.com" THEN "http%3A%2F%2Fb.com" ELSE v
Unquote(v) == IF v = "http%3A%2F%2Fb.com" THEN "http://b.com" ELSE v

RECURSIVE KeptQuery(_)
KeptQuery(q) ==
  IF q = <<>> THEN <<>>
  ELSE IF IsTracking(q[1][1]) THEN KeptQuery(Tail(q))
       ELSE <<q[1][1], "=", Quote(Unquote(q[1][2]))>> \o
            (IF KeptQuery(Tail(q)) = <<>> THEN <<>> ELSE <<"&">>) \o
            KeptQuery(Tail(q))

\* urlunsplit(("", host, path, query, "")).lstrip("/"), piece by piece
Rebuild(host, path, query) ==
  LET hp == IF host = <<>> /\ path = <<"/">> THEN <<>> ELSE host \o path
  IN  hp \o (IF query = <<>> THEN <<>> ELSE <<"?">> \o query)

\* a Bing click-tracking redirect with destination parameter u = v
CkUrl(sc, w, v, n) ==
  MkUrl(sc, w, "bing.com", <<"/ck/a">>, <<<<"u", v>>, <<"ntb", n>>>>, FALSE)

\* u.startswith("a1")
StartsWithA1(v) ==
  v \in {"a1page", "a1www", "a1ck", "a1ckck", "a1videos", "a1brk", "a1httpx",
         "a1bad"}

\* base64.urlsafe_b64decode raises on the value
B64Raises(v) == v = "a1bad"

\* what the u parameter of a Bing redirect decodes to, by its parts: a page,
\* another spelling of it, a redirect again (to two levels), a path of
\* bing.com itself, a URL that urlsplit rejects, the text "httpx"
CkTarget == MkUrl("https", FALSE, "a.com", <<"/p">>, <<>>, FALSE)
B64Decode(v) ==
  CASE v = "a1page" -> CkTarget
    [] v = "a1www" ->
         MkUrl("http", TRUE, "A.com", <<"/p", "/">>, <<<<"utm_source", "x">>>>, TRUE)
    [] v = "a1ck" -> CkUrl("https", TRUE, "a1page", "1")
    [] v = "a1ckck" -> CkUrl("https", TRUE, "a1ck", "1")
    [] v = "a1videos" -> MkUrl("", FALSE, "", <<"/videos">>, <<>>, FALSE)
    [] v = "a1brk" -> MkUrl("http", FALSE, "[a.com", <<"/p">>, <<>>, FALSE)
    [] v = "a1httpx" -> MkUrl("", FALSE, "httpx", <<>>, <<>>, FALSE)
    [] OTHER -> NoUrl

\* decoded.startswith("http")
StartsWithHttp(d) ==
  d.scheme \in {"http", "https"} \/ (d.scheme = "" /\ ~d.www /\ d.host = "httpx")

\* dict(parse_qsl(query)).get("u") or "": the last u parameter
CkParam(q) ==
  LET us == {i \in 1..Len(q) : q[i][1] = "u"}
  IN  IF us = {} THEN "" ELSE q[CHOOSE i \in us : \A j \in us : j <= i][2]

IsCkRedirect(parts) ==
  /\ HostOf(parts) = <<"bing.com">>
  /\ parts.path # <<>> /\ parts.path[1] = "/ck/a"

\* the key of a URL that is no Bing redirect (both copies of the function)
PlainKey(u) ==
  LET parts == urlsplit(u)
  IN  Rebuild(HostOf(parts), PathOf(parts), KeptQuery(parts.query))

\* the redirect branch is taken and leads to the recursive call
CkDecodable(u) ==
  /\ IsStr(u) /\ u # NoUrl /\ ~UrlsplitRaises(u)
  /\ IsCkRedirect(urlsplit(u))
  /\ StartsWithA1(CkParam(u.query)) /\ ~B64Raises(CkParam(u.query))
  /\ StartsWithHttp(B64Decode(CkParam(u.query)))
CkDecoded(u) == B64Decode(CkParam(u.query))

\* normalize_url_key without its recursive call
NormalizeBase(u) ==
  IF ~IsStr(u) THEN <<>>
  ELSE IF u = NoUrl THEN <<>>
  ELSE IF UrlsplitRaises(u) THEN InvalidIPv6URL
  ELSE IF IsCkRedirect(urlsplit(u)) /\ StartsWithA1(CkParam(u.query))
       THEN <<>>
       ELSE PlainKey(u)

\* a redirect branch that returns "" whatever the recursive call returns
CaughtInCk_Drop(k) == <<>>

\* except Exception: return "" around the recursive call
CaughtInCk(k) == IF k = InvalidIPv6URL THEN <<>> ELSE k

\* clean_bing_export.normalize_url_key
RECURSIVE normalize_url_key(_)
normalize_url_key(u) ==
  IF CkDecodable(u) THEN CaughtInCk(normalize_url_key(CkDecoded(u)))
  ELSE NormalizeBase(u)

\* A key read as a URL string again: the pieces before the first "/" are the
\* netloc text, those up to "?" the path, then name=value pairs joined by "&".
PathPieces == {"/", "/p", "/q", "/ck/a", "/videos"}

RECURSIVE QueryOfKey(_)
QueryOfKey(ps) ==
  IF Len(ps) < 3 THEN <<>>
  ELSE <<<<ps[1], ps[3]>>>> \o
       QueryOfKey(IF Len(ps) > 4 THEN SubSeq(ps, 5, Len(ps)) ELSE <<>>)

KeyAsUrl(k) ==
  LET qs == {i \in 1..Len(k) : k[i] = "?"}
      q == IF qs = {} THEN Len(k) + 1 ELSE MinOf(qs)
      head == SubSeq(k, 1, q - 1)
      nh == Cardinality({i \in 1..Len(head) : head[i] \notin PathPieces})
      www == nh > 0 /\ head[1] \in {"www.", "www.a.com"}
      host == IF nh = 0 THEN ""
              ELSE IF nh = 1 /\ head[1] = "www.a.com" THEN "a.com"
              ELSE head[nh]
  IN  MkUrl("", www, host, SubSeq(head, nh + 1, Len(head)),
            QueryOfKey(SubSeq(k, q + 1, Len(k))), FALSE)

\* ============================================================= ingestion
\* The urls sheet under ingest_bing_extension_export_with_content_to_geo_xlsx
\* and ingest_pilot_to_geo_xlsx.  Of its columns the model keeps url and
\* content_path; the input URLs are no Bing redirects.
UrlsHeader == {"url", "content_path"}
IngestUrls == {"https://a.com/p", "http://www.a.com/p/", "https://b.com/"}

\* the parts of the URL strings above
Parse(s) ==
  IF s = "https://a.com/p"
  THEN MkUrl("https", FALSE, "a.com", <<"/p">>, <<>>, FALSE)
  ELSE IF s = "http://www.a.com/p/"
  THEN MkUrl("http", TRUE, "a.com", <<"/p", "/">>, <<>>, FALSE)
  ELSE IF s = "https://b.com/"
  THEN MkUrl("https", FALSE, "b.com", <<"/">>, <<>>, FALSE)
  ELSE NoUrl

\* ingest_bing_extension_export_with_content_to_geo_xlsx.normalize_url_key
ingest_normalize_url_key(s) ==
  IF IsBlank(s) THEN <<>> ELSE PlainKey(Parse(Strip(s)))

\* rows whose url cell is not empty
UrlRows(sheet) == {i \in 1..Len(sheet) : ~IsBlank(sheet[i]["url"])}

\* map normalized key -> stored url (first seen)
build_urls_key_index(sheet) ==
  LET keys == {ingest_normalize_url_key(sheet[i]["url"]) : i \in UrlRows(sheet)}
             \ {<<>>}
  IN  [k \in keys |->
         Strip(sheet[MinOf({i \in UrlRows(sheet) :
                              ingest_normalize_url_key(sheet[i]["url"]) = k})]["url"])]

\* ingest_pilot_to_geo_xlsx.append_row for every URL of new_urls
RECURSIVE AppendUrls(_, _)
AppendUrls(sheet, us) ==
  IF us = <<>> THEN sheet
  ELSE AppendUrls(append_row_first_truly_empty(sheet, UrlsHeader,
                                               [url |-> us[1]]), Tail(us))

\* the urls sheet is empty and no script is running
InitIngest ==
  /\ InitCommon /\ runsLeft = 0 /\ argDomain = {} /\ apiDomain = {}
  /\ content = {}
  /\ NoSheet /\ NoIngest /\ NoClean

\* Bing export ingestion, main() up to the row loop
BingStart ==
  /\ ipc = "idle"
  /\ ipc' = "bing"
  /\ args_overwrite' \in BOOLEAN
  /\ urls_key_index' = build_urls_key_index(ws)
  /\ UNCHANGED <<enrichVars, cleanVars, storeVars, existing_urls, new_urls>>
  /\ UNCHANGED <<df, ws_main>>

\* one row of the export: collapse the URL to the stored variant, upsert
BingRow ==
  /\ ipc = "bing"
  /\ \E url \in IngestUrls, content_path \in {"", "c.txt"} :
       LET k == ingest_normalize_url_key(url)
           known == k # <<>> /\ k \in DOMAIN urls_key_index
           key_url == IF known THEN urls_key_index[k] ELSE url
       IN  /\ urls_key_index' =
                 (IF k # <<>> /\ ~known
                  THEN [x \in DOMAIN urls_key_index \cup {k} |->
                          IF x = k THEN key_url ELSE urls_key_index[x]]
                  ELSE urls_key_index)
           /\ ws' = upsert_row(ws, UrlsHeader, "url", key_url,
                               [content_path |-> content_path], args_overwrite)
  /\ UNCHANGED <<enrichVars, cleanVars, wsPrev, call, ipc, args_overwrite, existing_urls,
                 new_urls>>
  /\ UNCHANGED <<df, ws_main>>

\* wb.save at the end of the Bing export ingestion
BingEnd ==
  /\ ipc = "bing"
  /\ ipc' = "idle"
  /\ args_overwrite' = FALSE /\ urls_key_index' = <<>>
  /\ UNCHANGED <<enrichVars, cleanVars, storeVars, existing_urls, new_urls>>
  /\ UNCHANGED <<df, ws_main>>

\* pilot ingestion: the URL strings the urls sheet already has
PilotStart ==
  /\ ipc = "idle"
  /\ ipc' = "pilot"
  /\ existing_urls' = {Strip(ws[i]["url"]) : i \in UrlRows(ws)}
  /\ new_urls' = <<>>
  /\ UNCHANGED <<enrichVars, cleanVars, storeVars, args_overwrite, urls_key_index>>
  /\ UNCHANGED <<df, ws_main>>

\* one URL of the citations or of the Bing results that is not yet known
PilotUrl ==
  /\ ipc = "pilot"
  /\ \E u \in IngestUrls :
       /\ u \notin existing_urls
       /\ existing_urls' = existing_urls \cup {u}
       /\ new_urls' = Append(new_urls, u)
  /\ UNCHANGED <<enrichVars, cleanVars, storeVars, ipc, args_overwrite, urls_key_index>>
  /\ UNCHANGED <<df, ws_main>>

\* the new URLs are appended and the workbook is saved
PilotInsert ==
  /\ ipc = "pilot"
  /\ ws' = AppendUrls(ws, new_urls)
  /\ ipc' = "idle"
  /\ existing_urls' = {} /\ new_urls' = <<>>
  /\ UNCHANGED <<enrichVars, cleanVars, wsPrev, call, args_overwrite, urls_key_index>>
  /\ UNCHANGED <<df, ws_main>>

NextIngest ==
  \/ BingStart \/ BingRow \/ BingEnd \/ PilotStart \/ PilotUrl \/ PilotInsert

SpecIngest == InitIngest /\ [][NextIngest]_vars

\* rows of a CSV batch, positions in it, --top-n
MaxBatch == 3
MaxPos == 2
MaxTopN == 2

\* -------------------------------------------- ingest_bing_patch_results
\* The url cell pandas reads from an empty CSV field is NaN, no str.
NaN == NonStr("nan")

\* The URLs of a patch CSV: a page, another spelling of it, a Bing redirect
\* to the page, a Bing redirect to a bing.com path, an empty cell.
PatchUrls ==
  {MkUrl("https", FALSE, "a.com", <<"/p">>, <<>>, FALSE),
   MkUrl("http", TRUE, "a.com", <<"/p", "/">>, <<>>, FALSE),
   CkUrl("https", TRUE, "a1page", "1"),
   CkUrl("https", TRUE, "a1videos", "1"),
   NaN}

PatchRows == [run_id : {"g1", "g2"}, url : PatchUrls]

\* the sequences of n rows
PatchBatchesOfLen(n) == [1..n -> PatchRows]

PatchBatches == UNION {PatchBatchesOfLen(n) : n \in 1..MaxBatch}

\* safe_str of a url cell: "" for None and NaN
safe_str(v) == IF IsStr(v) THEN v ELSE NoUrl

\* "bing.com/ck/a" in u.lower()
HasCkText(u) == u.host = "bing.com" /\ u.path # <<>> /\ u.path[1] = "/ck/a"

\* ingest_bing_patch_results.decode_bing_ck_url
patch_decode_bing_ck_url(raw_url) ==
  LET u == safe_str(raw_url)
      enc == CkParam(u.query)
  IN  IF u = NoUrl \/ ~HasCkText(u) THEN u
      ELSE IF UrlsplitRaises(u) THEN NoUrl
      ELSE IF ~StartsWithA1(enc) THEN NoUrl
      ELSE IF B64Raises(enc) THEN NoUrl
      ELSE IF StartsWithHttp(B64Decode(enc)) THEN B64Decode(enc)
      ELSE NoUrl

\* decoded_url of a row: the decoded URL, the raw cell when that is ""
DecodedUrl(row) ==
  LET d == patch_decode_bing_ck_url(row.url)
  IN  [run_id |-> row.run_id, url |-> IF d = NoUrl THEN row.url ELSE d]

\* run_df.drop_duplicates(subset=['decoded_url']): the first row of each URL
RECURSIVE DropDuplicates(_, _)
DropDuplicates(rs, seen) ==
  IF rs = <<>> THEN <<>>
  ELSE IF rs[1].url \in seen THEN DropDuplicates(Tail(rs), seen)
       ELSE <<rs[1]>> \o DropDuplicates(Tail(rs), seen \cup {rs[1].url})

\* .head(30)
HeadRows(rs) == SubSeq(rs, 1, IF Len(rs) < 30 THEN Len(rs) ELSE 30)

\* the rows of one run_id, decoded, deduplicated and capped
RunRows(d, rid) ==
  HeadRows(DropDuplicates(
    SelectSeq([i \in 1..Len(d) |-> DecodedUrl(d[i])],
              LAMBDA row : row.run_id = rid), {}))

\* processed_rows for the run ids in the order rids
RECURSIVE ProcessedRows(_, _)
ProcessedRows(d, rids) ==
  IF rids = <<>> THEN <<>>
  ELSE RunRows(d, rids[1]) \o ProcessedRows(d, Tail(rids))

\* the orders a set of run ids may be iterated in
RECURSIVE OrdersOf(_)
OrdersOf(S) ==
  IF S = {} THEN {<<>>}
  ELSE UNION {{<<x>> \o o : o \in OrdersOf(S \ {x})} : x \in S}

\* step 4: every processed URL that is truthy and not yet in the urls sheet
RECURSIVE AddNewUrls(_, _, _)
AddNewUrls(sheet, existing, prows) ==
  IF prows = <<>> THEN sheet
  ELSE LET u == prows[1].url
       IN  IF u # NoUrl /\ u \notin existing
           THEN AddNewUrls(Append(sheet, [url |-> u]), existing \cup {u}, Tail(prows))
           ELSE AddNewUrls(sheet, existing, Tail(prows))

\* the workbook before the patch: bing_results and urls are empty or hold
\* a page of run g1
InitPatch ==
  /\ InitCommon /\ runsLeft = 0 /\ argDomain = {} /\ apiDomain = {}
  /\ content = {}
  /\ wsPrev = <<>> /\ call = <<>> /\ NoClean
  /\ ipc = "idle" /\ args_overwrite = FALSE /\ urls_key_index = <<>>
  /\ existing_urls = {} /\ new_urls = <<>>
  /\ df = <<>>
  /\ ws \in {<<>>, <<[url |-> MkUrl("https", FALSE, "a.com", <<"/p">>, <<>>, FALSE)]>>}
  /\ ws_main \in {<<>>, <<[run_id |-> "g1",
                           url |-> MkUrl("https", FALSE, "a.com", <<"/p">>, <<>>, FALSE)]>>}

\* ingest_bing_patch: the old rows of the patched run ids are deleted, the
\* processed rows appended to bing_results, their new URLs to urls, and the
\* workbook is saved (bing_results_raw is left out)
IngestBingPatch ==
  /\ ipc = "idle" /\ df = <<>>
  /\ \E d \in PatchBatches :
       \E rids \in OrdersOf({d[i].run_id : i \in 1..Len(d)}) :
         LET processed_rows == ProcessedRows(d, rids)
             patch_run_ids == {d[i].run_id : i \in 1..Len(d)}
         IN  /\ df' = d
             /\ ws_main' = SelectSeq(ws_main, LAMBDA row : row.run_id \notin patch_run_ids)
                             \o processed_rows
             /\ ws' = AddNewUrls(ws, {ws[i].url : i \in 1..Len(ws)}, processed_rows)
  /\ UNCHANGED <<enrichVars, cleanVars, wsPrev, call, ipc, args_overwrite,
                 urls_key_index, existing_urls, new_urls>>

NextPatch == IngestBingPatch

SpecPatch == InitPatch /\ [][NextPatch]_vars

\* ===================================================== clean_bing_export
\* The URLs of a batch: a page, a variant of it with the same key, another
\* page, and an empty url cell.
CleanUrls ==
  {MkUrl("https", FALSE, "a.com", <<"/p">>, <<>>, FALSE),
   MkUrl("http", TRUE, "a.com", <<"/p", "/">>, <<>>, FALSE),
   MkUrl("https", FALSE, "a.com", <<"/q">>, <<>>, FALSE),
   NoUrl}

\* Bing redirects: to a page, to a path of bing.com, and one without target
CkUrls ==
  {CkUrl("https", TRUE, v, n) : v \in {"a1page", "a1videos"}, n \in {"1", "2"}}
  \cup {MkUrl("https", TRUE, "bing.com", <<"/ck/a">>, <<<<"ntb", "1">>>>, FALSE)}

\* URLs in every spelling: scheme, www., host case, trailing slash, fragment,
\* tracking and other parameters, a parameter value that holds "://"
KeyUrls ==
  {MkUrl(sc, w, h, pa, q, f) :
     sc \in {"", "http", "https"}, w \in BOOLEAN, h \in {"a.com", "A.com"},
     pa \in {<<"/">>, <<"/p">>, <<"/p", "/">>},
     q \in {<<>>, <<<<"id", "1">>>>, <<<<"id", "2">>>>,
            <<<<"id", "1">>, <<"utm_source", "x">>>>,
            <<<<"next", "http://b.com">>>>},
     f \in BOOLEAN}
  \cup CkUrls

\* Bing redirects in every state of their u parameter: decodable (to a page,
\* to another redirect), without the a1 prefix, not base64, decoding to a
\* path, to a URL urlsplit rejects, to a text that only starts with "http",
\* or absent
CkInputs ==
  {CkUrl(sc, w, v, n) :
     sc \in {"", "https"}, w \in BOOLEAN,
     v \in {"a1page", "a1www", "a1ck", "a1ckck", "a1videos", "a1brk",
            "a1httpx", "a1bad", "b64page"},
     n \in {"1", "2"}}
  \cup {MkUrl(sc, w, "bing.com", <<"/ck/a">>, <<<<"ntb", "1">>>>, FALSE) :
          sc \in {"", "https"}, w \in BOOLEAN}

\* every kind of argument: no str, the empty string, URLs in every spelling,
\* a host with an unmatched bracket, a repeated www., Bing redirects
NormInputs ==
  {NonStr("None"), NonStr("5"), NoUrl}
  \cup KeyUrls \cup CkInputs
  \cup {MkUrl(sc, w, "[a.com", <<"/p">>, q, FALSE) :
          sc \in {"", "https"}, w \in BOOLEAN,
          q \in {<<>>, <<<<"next", "http://b.com">>>>}}
  \cup {MkUrl(sc, TRUE, "www.a.com", pa, q, FALSE) :
          sc \in {"", "https"}, pa \in {<<"/p">>, <<"/p", "/">>},
          q \in {<<>>, <<<<"id", "1">>>>, <<<<"next", "http://b.com">>>>}}

\* A row record: grp stands for its (run_id, query), position is the parsed
\* integer, url_key is <<>> until clean_bing_export sets it.
InputRows ==
  [grp : {"g1", "g2"}, position : 1..MaxPos, url : CleanUrls, url_key : {<<>>}]

\* the sequences of n rows
BatchesOfLen(n) == [1..n -> InputRows]

Batches == UNION {BatchesOfLen(n) : n \in 0..MaxBatch}

\* grouped: the rows of each group in input order, as row indices
GroupRows(rs, g) == {i \in 1..Len(rs) : rs[i].grp = g}

\* the groups in the order of their first row (dict insertion order)
RECURSIVE GroupOrder(_, _, _)
GroupOrder(rs, i, seen) ==
  IF i > Len(rs) THEN <<>>
  ELSE IF rs[i].grp \in seen THEN GroupOrder(rs, i + 1, seen)
       ELSE <<rs[i].grp>> \o GroupOrder(rs, i + 1, seen \cup {rs[i].grp})

\* sorted(group_rows, key=pos_val) is stable
SortBefore(rs, i, j) ==
  rs[i].position < rs[j].position
    \/ (rs[i].position = rs[j].position /\ i < j)

RECURSIVE SortedIdx(_, _)
SortedIdx(rs, S) ==
  IF S = {} THEN <<>>
  ELSE LET first == CHOOSE i \in S : \A j \in S \ {i} : SortBefore(rs, i, j)
       IN  <<first>> \o SortedIdx(rs, S \ {first})

\* the loop over group_rows_sorted: drop rows without url or key and rows
\* whose key was seen, stop when len(kept_rows) >= top_n
RECURSIVE KeepRows(_, _, _, _, _)
KeepRows(rs, idxs, seen_keys, kept_rows, n) ==
  IF idxs = <<>> THEN kept_rows
  ELSE LET rr == rs[idxs[1]]
           url_key == normalize_url_key(rr.url)
       IN  IF rr.url = NoUrl \/ url_key = <<>> \/ url_key \in seen_keys
           THEN KeepRows(rs, Tail(idxs), seen_keys, kept_rows, n)
           ELSE IF Len(kept_rows) + 1 >= n
                THEN Append(kept_rows, idxs[1])
                ELSE KeepRows(rs, Tail(idxs), seen_keys \cup {url_key},
                              Append(kept_rows, idxs[1]), n)

\* the kept rows of every group, in group order, as <<row index, rank>>
RECURSIVE KeptAll(_, _, _)
KeptAll(rs, groups, n) ==
  IF groups = <<>> THEN <<>>
  ELSE LET kept == KeepRows(rs, SortedIdx(rs, GroupRows(rs, groups[1])),
                            {}, <<>>, n)
       IN  [j \in 1..Len(kept) |-> <<kept[j], j>>] \o KeptAll(rs, Tail(groups), n)

\* a loop that takes no key for seen
IsDuplicate_Never(url_key, seen_keys) == FALSE

\* url_key in seen_keys
IsDuplicate(url_key, seen_keys) == url_key \in seen_keys

\* the increments of dropped_missing_url and dropped_duplicate_url in the
\* loop over one sorted group, as <<missing, duplicate>>; after the break
\* nothing is counted
RECURSIVE DropCounts(_, _, _, _, _)
DropCounts(rs, idxs, seen_keys, nkept, n) ==
  IF idxs = <<>> THEN <<0, 0>>
  ELSE LET rr == rs[idxs[1]]
           url_key == normalize_url_key(rr.url)
       IN  IF rr.url = NoUrl \/ url_key = <<>>
           THEN LET d == DropCounts(rs, Tail(idxs), seen_keys, nkept, n)
                IN  <<d[1] + 1, d[2]>>
           ELSE IF IsDuplicate(url_key, seen_keys)
           THEN LET d == DropCounts(rs, Tail(idxs), seen_keys, nkept, n)
                IN  <<d[1], d[2] + 1>>
           ELSE IF nkept + 1 >= n THEN <<0, 0>>
           ELSE DropCounts(rs, Tail(idxs), seen_keys \cup {url_key}, nkept + 1, n)

RECURSIVE DropCountsAll(_, _, _)
DropCountsAll(rs, groups, n) ==
  IF groups = <<>> THEN <<0, 0>>
  ELSE LET d == DropCounts(rs, SortedIdx(rs, GroupRows(rs, groups[1])), {}, 0, n)
           e2 == DropCountsAll(rs, Tail(groups), n)
       IN  <<d[1] + e2[1], d[2] + e2[2]>>

\* the stats dict clean_bing_export returns
clean_stats(rs, n) ==
  LET d == DropCountsAll(rs, GroupOrder(rs, 1, {}), n)
  IN  [input_rows |-> Len(rs),
       output_rows |-> Len(KeptAll(rs, GroupOrder(rs, 1, {}), n)),
       groups |-> Len(GroupOrder(rs, 1, {})),
       dropped_missing_url |-> d[1],
       dropped_duplicate_url |-> d[2]]

\* rr["url_key"] = url_key; rr["position"] = str(i)
Renumbered(rr, i) ==
  [rr EXCEPT !.position = i, !.url_key = normalize_url_key(rr.url)]

\* clean_bing_export(rows, top_n): the list it returns ...
clean_bing_export(rs, n) ==
  LET kept == KeptAll(rs, GroupOrder(rs, 1, {}), n)
  IN  [j \in 1..Len(kept) |-> Renumbered(rs[kept[j][1]], kept[j][2])]

\* ... and the row records it was given, which it changes in place
RowsAfter(rs, n) ==
  LET kept == KeptAll(rs, GroupOrder(rs, 1, {}), n)
  IN  [i \in 1..Len(rs) |->
         IF \E j \in 1..Len(kept) : kept[j][1] = i
         THEN Renumbered(rs[i], (CHOOSE p \in {kept[j] : j \in 1..Len(kept)} :
                                   p[1] = i)[2])
         ELSE rs[i]]

\* any batch of rows, any top_n
InitClean ==
  /\ InitCommon /\ runsLeft = 0 /\ argDomain = {} /\ apiDomain = {}
  /\ content = {}
  /\ NoSheet /\ NoIngest
  /\ rows \in Batches /\ given = <<>>
  /\ top_n \in 0..MaxTopN
  /\ cleaned = <<>> /\ fed = FALSE /\ stats = <<>>
  /\ raw_urls = <<>> /\ url_keys = <<>>

\* clean_bing_export is called on the row records
CleanCall ==
  /\ Len(cleaned) < MaxCalls
  /\ cleaned' = Append(cleaned, clean_bing_export(rows, top_n))
  /\ rows' = RowsAfter(rows, top_n)
  /\ stats' = clean_stats(rows, top_n)
  /\ given' = rows
  /\ UNCHANGED <<enrichVars, storeVars, ingestVars, top_n, fed, raw_urls,
                 url_keys>>

\* the output of the first call becomes the input of the next
FeedOutput ==
  /\ Len(cleaned) = 1 /\ ~fed
  /\ rows' = cleaned[1]
  /\ fed' = TRUE
  /\ UNCHANGED <<enrichVars, storeVars, ingestVars, given, top_n, cleaned,
                 raw_urls, url_keys>>
  /\ UNCHANGED stats

NextClean == CleanCall \/ FeedOutput

SpecClean == InitClean /\ [][NextClean]_vars

\* any two URLs
InitKey ==
  /\ InitCommon /\ runsLeft = 0 /\ argDomain = {} /\ apiDomain = {}
  /\ content = {}
  /\ NoSheet /\ NoIngest
  /\ rows = <<>> /\ given = <<>> /\ top_n = 0 /\ cleaned = <<>>
  /\ fed = FALSE /\ stats = <<>>
  /\ raw_urls \in KeyUrls \X KeyUrls
  /\ url_keys = <<>>

\* normalize_url_key is called on both
NormalizeKeys ==
  /\ url_keys = <<>>
  /\ url_keys' = <<normalize_url_key(raw_urls[1]), normalize_url_key(raw_urls[2])>>
  /\ UNCHANGED <<enrichVars, storeVars, ingestVars, rows, given, top_n,
                 cleaned, fed, raw_urls>>
  /\ UNCHANGED stats

NextKey == NormalizeKeys

SpecKey == InitKey /\ [][NextKey]_vars

\* ================================================================ claims
LogIdx == 1..Len(log)
OldIdx == 1..logStart
NewIdx == (logStart + 1)..Len(log)
Running == pc \notin {"idle"}

\* C1: after a run that was interrupted, once the next run without
\* --overwrite has completed, every URL that has an ok:true audit entry
\* carrying labels has its urls.type in the saved workbook.
C1_CrashConsistency ==
  (pc = "done" /\ interrupted /\ ~args.overwrite) =>
    \A i \in LogIdx :
      (log[i].ok /\ log[i].response.kind = "Label") => xlsx[log[i].url] # ""

\* C2: a run without --overwrite and without --retry-failures issues no API
\* call and appends no audit entry for a URL that the audit log already had
\* an entry for (ok:true or ok:false) when the run started.
C2_ResumeSkipsLogged ==
  (Running /\ ~args.overwrite /\ ~args.retry_failures) =>
    /\ \A u \in called : \A i \in OldIdx : log[i].url # u
    /\ \A j \in NewIdx : \A i \in OldIdx : log[i].url # log[j].url

\* a run without flags has passed two rows that were logged earlier, one
\* ok:true and one ok:false, and whose urls.type is empty
C2_Witness ==
  /\ Running /\ ~args.overwrite /\ ~args.retry_failures
  /\ skipped >= 2 /\ called = {} /\ r > 2
  /\ \E i \in OldIdx : log[i].ok /\ wb[log[i].url] = ""
  /\ \E i \in OldIdx : ~log[i].ok /\ wb[log[i].url] = ""

\* C3 as stated: a run restarted without --overwrite after an interrupted
\* run issues no API call for an item whose API call returned a response in
\* the interrupted run.
C3_NoRepeatedCall ==
  (Running /\ interrupted /\ ~args.overwrite) => called \cap okPrev = {}

\* C3 amended: a run without --overwrite, in particular one restarted after
\* an interruption, issues no API call for a URL whose ok:true audit entry
\* was in the log when the run started.
C3_NoRepeatAfterLoggedOk ==
  (Running /\ ~args.overwrite) =>
    \A u \in called : \A i \in OldIdx : log[i].url = u => ~log[i].ok

\* a restarted run (with --retry-failures) has skipped a row whose call
\* returned and was logged ok:true before the interruption, and has called
\* the API for another row
C3_Witness ==
  /\ Running /\ interrupted /\ ~args.overwrite
  /\ called # {}
  /\ \E i \in OldIdx :
       /\ log[i].ok /\ log[i].url \in okPrev /\ wb[log[i].url] = ""
       /\ log[i].url < r /\ log[i].url \notin called

\* ------------------------------------------------------ the retry loop
LastOut == outs[Len(outs)]
LastEntry == log[Len(log)]
\* the item that went through the retry loop has its audit entry
ItemEnded == pc = "post" /\ attempt >= 1
\* the API was called in the attempt just made
JustCalled ==
  \/ pc = "store"
  \/ pc = "except" /\ last_err.kind # "TimeoutError"
  \/ pc = "logfail" /\ e.kind = "RuntimeError"

C4_Transient(o) ==
  \/ o.kind \in {"ReadTimeout", "ConnectTimeout", "ConnectionError"}
  \/ o.kind = "HTTPError" /\ o.status \in {429, 500, 502, 503, 504}
C4_MaxAttempts == IF args.retries + 1 > 1 THEN args.retries + 1 ELSE 1
C4_Expected ==
  LET stops == {i \in 1..Len(outs) : ~C4_Transient(outs[i])}
  IN  IF stops # {} THEN CHOOSE i \in stops : \A j \in stops : i <= j
      ELSE C4_MaxAttempts

\* C4 as stated: with no budget, the number of API calls of an item is the
\* index of the first attempt that succeeds or fails with a non-retryable
\* error, or max_attempts; the item ends SUCCESS iff that last attempt
\* returned a response.
C4_ExactAttempts ==
  (ItemEnded /\ args.max_seconds_per_url = 0) =>
    /\ Len(outs) = C4_Expected
    /\ LastEntry.ok <=> LastOut \in Responses

\* C4 amended: the same number of calls; the item ends SUCCESS iff that last
\* attempt returned a non-null JSON value and writing it to the workbook
\* raised no exception.
C4_ExactAttemptsStored ==
  (ItemEnded /\ args.max_seconds_per_url = 0) =>
    /\ Len(outs) = C4_Expected
    /\ LastEntry.ok <=>
         (LastOut \in Responses /\ LastOut.kind \notin {"Null", "BadCell"})

\* 503, 503, success with three attempts allowed: SUCCESS after three calls
C4_Witness ==
  /\ ItemEnded /\ args.max_seconds_per_url = 0 /\ args.retries = 2
  /\ outs = <<HTTPError(503), HTTPError(503), Resp("Label")>>
  /\ LastEntry.ok /\ LastEntry.url = r

C5_Listed(o) ==
  \/ o.kind \in {"ReadTimeout", "ConnectTimeout"}
  \/ o.kind = "HTTPError" /\ o.status \in {429, 500, 502, 503, 504}

\* C5 as stated: another attempt is started only after a connect/read
\* timeout or HTTP 429/500/502/503/504; any other failure is the last call
\* of the item, which ends FAILURE.
C5_RetryOnlyListed ==
  /\ (pc = "attempt" /\ attempt > 1) => C5_Listed(last_err)
  /\ \A i \in 1..Len(outs) :
       (outs[i] \notin Responses /\ ~C5_Listed(outs[i])) =>
         /\ i = Len(outs)
         /\ pc \in {"except", "logfail", "post"}
         /\ pc = "post" => ~LastEntry.ok

\* C5 amended: another attempt is started only after a connect/read timeout,
\* any other connection error, or HTTP 429/500/502/503/504; any other
\* failure is the last call of the item, which ends FAILURE.
C5_RetryOnlyTransient ==
  /\ (pc = "attempt" /\ attempt > 1) =>
       (C5_Listed(last_err) \/ last_err.kind = "ConnectionError")
  /\ \A i \in 1..Len(outs) :
       (outs[i] \notin Responses /\ ~C5_Listed(outs[i])
          /\ outs[i].kind # "ConnectionError") =>
         /\ i = Len(outs)
         /\ pc \in {"except", "logfail", "post"}
         /\ pc = "post" => ~LastEntry.ok

\* a connection error was retried, then a 404 ended the item with an
\* attempt to spare
C5_Witness ==
  /\ ItemEnded /\ args.retries = 2
  /\ outs = <<Exc("ConnectionError"), HTTPError(404)>>
  /\ ~LastEntry.ok /\ LastEntry.error = HTTPError(404)

\* C6: an item whose response is valid JSON without the expected structure
\* ends as a FAILURE, logged ok:false.
C6_SchemaViolationFails ==
  (ItemEnded /\ Len(outs) >= 1 /\ LastOut.kind \in {"NoUrls", "NonDict"}) =>
    (~LastEntry.ok /\ LastEntry.url = r /\ failed >= 1)

\* C7: with a budget set, an attempt that starts with no budget left issues
\* no API call, nor does any later one, and the item ends FAILURE, logged
\* ok:false.
C7_BudgetExhaustedNoCall ==
  /\ (BudgetOn(args) /\ JustCalled) => \A x \in remaining : x > 0
  /\ (pc = "except" /\ last_err.kind = "TimeoutError") =>
       (Len(outs) = attempt - 1 /\ \A x \in remaining : x <= 0)
  /\ (pc \in {"logfail", "post"} /\ e.kind = "TimeoutError") =>
       Len(outs) = attempt - 1
  /\ (pc = "post" /\ e.kind = "TimeoutError") =>
       (~LastEntry.ok /\ LastEntry.url = r /\ LastEntry.error = e)

\* the second attempt found the budget used up and the item was logged
\* ok:false after a single call
C7_Witness ==
  /\ pc = "post" /\ e.kind = "TimeoutError" /\ attempt = 2 /\ Len(outs) = 1
  /\ \A x \in remaining : x <= 0
  /\ ~LastEntry.ok

\* C8: with a budget set, the timeout of an attempt never exceeds the budget
\* remaining when the attempt starts; without a budget the timeout of
\* attempt k is base_timeout * multiplier^(k-1), truncated.
C8_TimeoutWithinBudget ==
  JustCalled =>
    IF args.max_seconds_per_url > 0
    THEN \A x \in remaining : t * TicksPerSec <= x
    ELSE t = (args.timeout * Pow(args.mult_num, attempt - 1))
               \div Pow(args.mult_den, attempt - 1)

C9_Floor ==
  (IF args.retry_backoff > 0 THEN args.retry_backoff ELSE 0)
    * Pow(2, attempt - 2)

\* C9: the sleep between failed attempt k and attempt k+1 lies in
\* [base*2^(k-1), base*2^(k-1) + 0.25 s) without a budget; with a budget it is
\* below that upper bound and never above the remaining budget, which is
\* positive; the number of sleeps is one less than the number of attempts
\* started, so none follows the last attempt, a non-retryable failure or an
\* exhausted budget.
C9_Backoff ==
  /\ (pc = "attempt" /\ attempt > 1) =>
       IF args.max_seconds_per_url > 0
       THEN /\ sleep_s < C9_Floor + JitterTicks
            /\ \A x \in remaining : x > 0 /\ sleep_s <= x
       ELSE /\ C9_Floor <= sleep_s
            /\ sleep_s < C9_Floor + JitterTicks
  /\ attempt >= 1 => nsleeps = attempt - 1
  /\ (pc \in {"logfail", "post"} /\ attempt >= 1) => Len(outs) <= nsleeps + 1

\* the third attempt is about to start after a doubled, jittered sleep
C9_Witness ==
  /\ pc = "attempt" /\ attempt = 3 /\ args.max_seconds_per_url = 0
  /\ args.retry_backoff > 0
  /\ sleep_s = 2 * args.retry_backoff + 1

\* -------------------------------------------------------- the audit log
\* C10: the audit log only grows, earlier entries stay as they are; an item
\* gets its single entry when it reaches its outcome, ok:true for the items
\* counted labeled and ok:false with the error for the items counted failed.
C10_AuditLogDiscipline ==
  [][/\ Len(log') >= Len(log)
     /\ SubSeq(log', 1, Len(log)) = log
     /\ IF pc \in {"logok", "logfail"} /\ pc' = "post"
        THEN /\ Len(log') = Len(log) + 1
             /\ log'[Len(log')].url = r
             /\ log'[Len(log')].ok = (pc = "logok")
             /\ log'[Len(log')].ok => (failed' = failed /\ labeled' = labeled)
             /\ ~log'[Len(log')].ok =>
                  (failed' = failed + 1 /\ log'[Len(log')].error = e
                     /\ e # NoneV)
        ELSE log' = log
     /\ Running =>
          /\ Cardinality({i \in NewIdx : log[i].ok})
               + (IF pc = "logok" THEN 1 ELSE 0) = labeled
          /\ Cardinality({i \in NewIdx : ~log[i].ok}) = failed
          /\ \A i, j \in NewIdx : log[i].url = log[j].url => i = j
    ]_vars

\* a run has added an ok:true and an ok:false entry to an older log
C10_Witness ==
  /\ Running /\ logStart >= 1
  /\ \E i \in NewIdx : log[i].ok
  /\ \E i \in NewIdx : ~log[i].ok
  /\ labeled = 1 /\ failed = 1

\* ------------------------------------------------------- checkpointing
\* C11: with --save-every K > 0, at every point of a run at most K items
\* were processed since the workbook was last saved, so at most K rows of
\* the workbook in memory differ from the saved one; when the run ends
\* normally the workbook is saved once more, whatever K is.
C11_Checkpointing ==
  /\ (Running /\ args.save_every > 0) =>
       /\ processed - last_saved_at <= args.save_every
       /\ Cardinality({x \in Rows : wb[x] # xlsx[x]}) <= args.save_every
  /\ pc = "done" => xlsx = wb

\* a run with --save-every 2 ended after a checkpoint at the second item
C11_Witness ==
  /\ pc = "done" /\ args.save_every = 2
  /\ processed = 2 /\ last_saved_at = 2
  /\ \E x \in Rows : xlsx[x] # ""

HasNewEntry(row) == \E i \in NewIdx : log[i].url = row
HasOldEntry(row) == \E i \in OldIdx : log[i].url = row

\* C12: a failed item is recorded and the run goes on: a run that reached
\* the failure handler ends with the final save unless the process is
\* killed, and a run that ended without the --max-urls limit has an audit
\* entry of this run for every row with content that was not to be skipped.
C12_FailureDoesNotAbort ==
  /\ [](pc = "done" /\ args.max_urls = 0 =>
         \A row \in content :
           \/ HasNewEntry(row)
           \/ ~args.overwrite /\ (xlsx[row] # "" \/ HasOldEntry(row)))
  /\ (pc = "logfail" ~> pc \in {"done", "idle"})
  /\ (pc = "post" /\ ~LastEntry.ok ~> pc \in {"done", "idle"})

\* a run ended in which the first row failed and the second was labelled
C12_Witness ==
  /\ pc = "done" /\ failed = 1 /\ labeled = 1
  /\ \E i, j \in NewIdx :
       /\ i < j /\ ~log[i].ok /\ log[j].ok
       /\ log[i].url < log[j].url
  /\ xlsx[2] = "listicle"

\* ------------------------------------------------------ the urls record
\* the urls.type value a response carries ("" when it has none)
C13_Incoming(resp) == IF resp.kind \in {"Label", "BadCell"} THEN "listicle" ELSE ""

\* C13: when the response of an item is written to its urls record, a
\* non-empty urls.type is replaced only when --overwrite is set, and never
\* by an empty or missing type of the response.
C13_UrlsUpsert ==
  [][(pc = "store" /\ pc' \in {"logok", "logfail"} /\ wb[r] # "") =>
       \/ wb'[r] = wb[r]
       \/ args.overwrite /\ C13_Incoming(parsed) # "" /\ wb'[r] = C13_Incoming(parsed)
    ]_vars

\* ------------------------------------------------------------ upsert_row
C14_Empty(v) == v \in {PyNone, "", " "}
\* the worksheet before the first call and after it
C14_Before == wsPrev[1]
C14_After == IF Len(wsPrev) = 1 THEN ws ELSE wsPrev[2]
C14_Row ==
  MinOf({i \in 1..Len(C14_Before) : C14_Before[i][KeyCol] = call.key_val})

\* C14: after upsert_row on a key the sheet has, every field of the incoming
\* row that has a column holds the incoming value if that value is non-empty
\* and (overwrite is set or the cell was empty), and its old value otherwise;
\* no other cell changes and no row is added.
C14_UpsertMerge ==
  (Len(wsPrev) >= 1 /\ \E i \in 1..Len(C14_Before) :
                          C14_Before[i][KeyCol] = call.key_val) =>
    /\ Len(C14_After) = Len(C14_Before)
    /\ \A i \in 1..Len(C14_Before) : \A c \in Header :
         C14_After[i][c] =
           IF /\ i = C14_Row /\ c \in DOMAIN call.row
              /\ ~C14_Empty(call.row[c])
              /\ (call.overwrite \/ C14_Empty(C14_Before[i][c]))
           THEN call.row[c]
           ELSE C14_Before[i][c]

\* f = X was kept by upsert(k, {f: Y}, overwrite = false)
C14_Witness ==
  /\ Len(wsPrev) >= 1 /\ Len(C14_Before) = 2
  /\ C14_Before[2] = [key |-> "X", f |-> "X"]
  /\ C14_Before[1][KeyCol] = "Y"
  /\ call = [key_val |-> "X", row |-> [f |-> "Y"], overwrite |-> FALSE]
  /\ C14_After[2]["f"] = "X"

\* C15: calling upsert_row a second time with the same arguments leaves the
\* worksheet, the number of its rows included, as the first call left it.
C15_UpsertIdempotent ==
  Len(wsPrev) = 2 => ws = wsPrev[2]

\* ------------------------------------------------------------- ingestion
\* C16: whatever ingestion passes have run on an empty urls sheet, no two of
\* its rows have URLs with the same canonical key.
C16_OneRowPerKey ==
  \A i, j \in UrlRows(ws) :
    ingest_normalize_url_key(ws[i]["url"]) = ingest_normalize_url_key(ws[j]["url"])
      => i = j

\* ----------------------------------------------------- clean_bing_export
\* the first call on a batch has returned
C17_FirstCall == Len(cleaned) = 1 /\ ~fed
\* the rows it emitted for a group
C17_Out(g) == SelectSeq(cleaned[1], LAMBDA x : x.grp = g)
C17_Keys(g) ==
  {normalize_url_key(given[i].url) : i \in {k \in 1..Len(given) : given[k].grp = g}}
    \ {<<>>}
C17_M(g) ==
  IF Cardinality(C17_Keys(g)) <= top_n THEN Cardinality(C17_Keys(g)) ELSE top_n

\* C17: the positions of the rows emitted for a group are 1..M in output
\* order, M the number of distinct non-empty keys of the group capped at
\* top_n; no two emitted rows of a group share a key and none has an empty
\* key.
C17_ContiguousRanks ==
  C17_FirstCall =>
    \A g \in {"g1", "g2"} :
      /\ Len(C17_Out(g)) = C17_M(g)
      /\ \A j \in 1..Len(C17_Out(g)) :
           /\ C17_Out(g)[j].position = j
           /\ normalize_url_key(C17_Out(g)[j].url) # <<>>
           /\ \A k \in 1..Len(C17_Out(g)) :
                normalize_url_key(C17_Out(g)[k].url)
                  = normalize_url_key(C17_Out(g)[j].url) => k = j

C18_Before(i, j) ==
  given[i].position < given[j].position
    \/ (given[i].position = given[j].position /\ i < j)
\* the rows of a group that are the first of their key in sorted order
C18_Firsts(g) ==
  {i \in 1..Len(given) :
     /\ given[i].grp = g
     /\ normalize_url_key(given[i].url) # <<>>
     /\ \A j \in 1..Len(given) :
          (j # i /\ given[j].grp = g
             /\ normalize_url_key(given[j].url) = normalize_url_key(given[i].url))
            => C18_Before(i, j)}
C18_Rank(g, i) == Cardinality({j \in C18_Firsts(g) : C18_Before(j, i)}) + 1
C18_Expected(g) == {i \in C18_Firsts(g) : C18_Rank(g, i) <= top_n}

\* C18: for every top_n >= 0 the rows emitted for a group are the first
\* top_n of its rows sorted stably by position with only the first row of
\* each non-empty key kept.
C18_DedupSelection ==
  C17_FirstCall =>
    \A g \in {"g1", "g2"} :
      /\ Len(C17_Out(g)) = Cardinality(C18_Expected(g))
      /\ Len(C17_Out(g)) <= top_n
      /\ \A i \in C18_Expected(g) :
           C18_Rank(g, i) <= Len(C17_Out(g))
             /\ C17_Out(g)[C18_Rank(g, i)].url = given[i].url

\* C19: a second call of clean_bing_export, on the same row records or on
\* the output of the first call, returns what the first call returned.
C19_Rerunnable ==
  Len(cleaned) >= 2 => cleaned[2] = cleaned[1]

\* one call of normalize_url_key, level by level: raw_urls holds the
\* argument of every level, url_keys the returned key, then the key of the key
InitNorm ==
  /\ InitCommon /\ runsLeft = 0 /\ argDomain = {} /\ apiDomain = {}
  /\ content = {}
  /\ NoSheet /\ NoIngest
  /\ rows = <<>> /\ given = <<>> /\ top_n = 0 /\ cleaned = <<>>
  /\ fed = FALSE /\ stats = <<>>
  /\ raw_urls \in {<<x>> : x \in NormInputs}
  /\ url_keys = <<>>

\* return normalize_url_key(decoded): one level deeper
Decode ==
  /\ url_keys = <<>>
  /\ CkDecodable(raw_urls[Len(raw_urls)])
  /\ raw_urls' = Append(raw_urls, CkDecoded(raw_urls[Len(raw_urls)]))
  /\ UNCHANGED <<enrichVars, storeVars, ingestVars, rows, given, top_n,
                 cleaned, fed, url_keys>>
  /\ UNCHANGED stats

\* the innermost level returns or raises; every level above hands the key
\* on and turns an exception into ""
Return ==
  /\ url_keys = <<>>
  /\ ~CkDecodable(raw_urls[Len(raw_urls)])
  /\ url_keys' = <<IF Len(raw_urls) > 1
                   THEN CaughtInCk(NormalizeBase(raw_urls[Len(raw_urls)]))
                   ELSE NormalizeBase(raw_urls[Len(raw_urls)])>>
  /\ UNCHANGED <<enrichVars, storeVars, ingestVars, rows, given, top_n,
                 cleaned, fed, raw_urls>>
  /\ UNCHANGED stats

\* the returned key is normalized again
Renormalize ==
  /\ Len(url_keys) = 1
  /\ url_keys[1] \notin {<<>>, InvalidIPv6URL}
  /\ url_keys' = Append(url_keys, normalize_url_key(KeyAsUrl(url_keys[1])))
  /\ UNCHANGED <<enrichVars, storeVars, ingestVars, rows, given, top_n,
                 cleaned, fed, raw_urls>>
  /\ UNCHANGED stats

NextNorm == Decode \/ Return \/ Renormalize

SpecNorm == InitNorm /\ [][NextNorm]_vars

\* a call that has started runs on
SpecNormLive == SpecNorm /\ WF_vars(Decode \/ Return)

\* ----------------------------------------------------- normalize_url_key
\* the parameters of a URL that are no tracking parameters
C20_Kept(q) ==
  SelectSeq(q, LAMBDA kv : ~(kv[1] \in {"utm_source", "utm_medium", "gclid",
                                        "fbclid", "msclkid", "yclid", "mc_cid",
                                        "mc_eid", "igshid", "ref", "ref_src",
                                        "spm"}))
\* a URL without what the claim lets vary: scheme, www., host case, a
\* trailing slash on a non-root path, fragment, tracking parameters
C20_Core(u) ==
  <<IF u.host = "A.com" THEN "a.com" ELSE u.host,
    IF Len(u.path) > 1 /\ u.path[Len(u.path)] = "/"
    THEN SubSeq(u.path, 1, Len(u.path) - 1) ELSE u.path,
    C20_Kept(u.query)>>

\* C20: two URLs that differ only in scheme, a leading www., host case, a
\* trailing slash on a non-root path, the fragment or tracking parameters
\* have the same key; two URLs whose non-tracking parameters differ have
\* different keys.
C20_KeyClasses ==
  url_keys # <<>> =>
    /\ C20_Core(raw_urls[1]) = C20_Core(raw_urls[2]) => url_keys[1] = url_keys[2]
    /\ C20_Kept(raw_urls[1].query) # C20_Kept(raw_urls[2].query)
         => url_keys[1] # url_keys[2]

\* an argument that is no URL: no str, empty, or rejected by urlsplit
C21_Unparseable(x) == ~IsStr(x) \/ x = NoUrl \/ UrlsplitRaises(x)

\* C21: normalize_url_key returns a string for every argument and lets no
\* exception escape; it returns "" for an argument that cannot be parsed,
\* and what it returns depends on the argument alone.
C21_TotalDeterministic ==
  url_keys # <<>> =>
    /\ url_keys[1] # InvalidIPv6URL
    /\ C21_Unparseable(raw_urls[1]) => url_keys[1] = <<>>
    /\ url_keys[1] = normalize_url_key(raw_urls[1])

\* a Bing redirect whose u parameter does not lead to an http(s) URL
C22_Undecodable(x) ==
  x \in CkInputs /\ CkParam(x.query) \notin {"a1page", "a1www", "a1ck", "a1ckck"}

\* C22: for a Bing redirect whose u parameter is missing, lacks the a1
\* prefix, is no base64 or decodes to no http(s) URL, normalize_url_key
\* returns "".
C22_UndecodableIsEmpty ==
  (url_keys # <<>> /\ C22_Undecodable(raw_urls[1])) => url_keys[1] = <<>>

\* the text is an http(s) URL
C23_IsHttpUrl(d) == d.scheme \in {"http", "https"} /\ ~UrlsplitRaises(d)

\* C23: the key of a Bing redirect whose u parameter decodes to an http(s)
\* URL d is the key of d, at every level of a nested redirect, and every
\* call returns.
C23_RedirectResolves ==
  /\ [](url_keys # <<>> =>
          \A i \in 2..Len(raw_urls) :
            C23_IsHttpUrl(raw_urls[i]) => url_keys[1] = normalize_url_key(raw_urls[i]))
  /\ <>(url_keys # <<>>)

\* a redirect to a redirect to a redirect to a page has got the page's key
C23_Witness ==
  /\ Len(raw_urls) = 4 /\ url_keys # <<>> /\ url_keys[1] = <<"a.com", "/p">>
  /\ C23_IsHttpUrl(raw_urls[4])

\* a url cell without a real destination: empty, or a Bing redirect whose u
\* parameter does not decode to an http(s) URL
C24_NoDestination(u) ==
  ~IsStr(u) \/ u = NoUrl
    \/ (u.host = "bing.com" /\ CkParam(u.query) \notin {"a1page", "a1www", "a1ck", "a1ckck"})

\* C24: no row whose URL is empty or an undecodable Bing redirect is
\* written to bing_results or to the urls sheet (here: by the patch
\* ingestion).
C24_NoDestinationDropped ==
  /\ \A i \in 1..Len(ws_main) : ~C24_NoDestination(ws_main[i].url)
  /\ \A i \in 1..Len(ws) : ~C24_NoDestination(ws[i].url)

\* C25: storing the same product item of the same page again, under
\* --overwrite, adds no row to listicle_products: one row per (listicle_url,
\* position_in_listicle, product_name), also when the item has no
\* listicle_url of its own.
C25_OneRowPerProduct ==
  [][(wsPrev # <<>> /\ call' = call /\ call.overwrite) => Len(ws') = Len(ws)]_vars

\* C26: an upsert of the ingestion replaces no cell of the sheet that was
\* not empty by a different value.
C26_NonDestructiveMerge ==
  wsPrev # <<>> =>
    \A i \in 1..Len(wsPrev[1]) : \A c \in Header :
      ~IsBlank(wsPrev[1][i][c]) => ws[i][c] = wsPrev[1][i][c]

\* the rows accounted for by the counters, and the (run_id, query) pairs
C27_Counted == stats.output_rows + stats.dropped_missing_url + stats.dropped_duplicate_url
C27_Pairs == {given[i].grp : i \in 1..Len(given)}
\* no group of the input has more than top_n rows
C27_NoGroupCut ==
  \A g \in C27_Pairs : Cardinality({i \in 1..Len(given) : given[i].grp = g}) <= top_n

\* C27 as stated: input_rows = output_rows + dropped_missing_url +
\* dropped_duplicate_url for every batch and every top_n, and groups is the
\* number of distinct (run_id, query) pairs.
C27_StatsConservation ==
  Len(cleaned) >= 1 =>
    /\ stats.input_rows = C27_Counted
    /\ stats.groups = Cardinality(C27_Pairs)

\* C27 amended: the counters never account for more rows than were read,
\* they account for all of them when no group has more than top_n rows, and
\* groups is the number of distinct (run_id, query) pairs.
C27_StatsAccounted ==
  Len(cleaned) >= 1 =>
    /\ stats.input_rows = Len(given)
    /\ C27_Counted <= stats.input_rows
    /\ C27_NoGroupCut => stats.input_rows = C27_Counted
    /\ stats.groups = Cardinality(C27_Pairs)

\* a batch with a duplicate whose groups fit into top_n was cleaned
C27_Witness ==
  /\ Len(cleaned) = 1 /\ Len(given) >= 2 /\ C27_NoGroupCut
  /\ stats.dropped_duplicate_url >= 1 /\ stats.output_rows >= 1

\* C28: the key of a non-empty key is the key itself.
C28_KeyFixedPoint == Len(url_keys) = 2 => url_keys[2] = url_keys[1]

\* C29: when a run ends, processed = labeled + failed, and with --max-urls
\* N > 0 the processed count and the number of items an API call was made
\* for are at most N.
C29_CountersConsistent ==
  pc = "done" =>
    /\ processed = labeled + failed
    /\ args.max_urls > 0 =>
         (processed <= args.max_urls /\ Cardinality(called) <= args.max_urls)

\* C30: the step by which an item fails leaves the workbook in memory as it
\* was; no other step of an item writes to it, so a failed item leaves the
\* store untouched.
C30_FailureLeavesStore == [][pc' = "logfail" => wb' = wb]_vars

====
